---- MODULE Spec2Model ----
(***************************************************************************)
(* Model of the weavster server supervisor                                 *)
(* (src/src/weavster/cli/commands/server.py): the PID file, the liveness   *)
(* probe, foreground/detached start and the escalating stop protocol.      *)
(* Every CLI invocation is a process that walks through the system calls   *)
(* of start_server / stop_server / is_server_running one at a time; the    *)
(* environment lets children exit and unrelated processes take free pids.  *)
(***************************************************************************)
EXTENDS Integers, Sequences, FiniteSets, TLC

\* ---------------------------------------------------------------- bounds
\* Number of process identifiers the operating system hands out.
NumPids == 2
\* Smallest process identifier of the model; with NumPids = 2 the pids are
\* 9 and 10, so that one- and two-digit PID files both occur.
FirstPid == 9

Pids == FirstPid..(FirstPid + NumPids - 1)

\* The PID-file functions called on their own: the largest pid written
\* besides the one of the unit test, and the number of calls in a row.
MaxStorePid == 11
MaxStoreCalls == 3

\* The pid that test_write_pid_file writes.
TestPid == 12345

StorePids == 1..MaxStorePid \cup {TestPid}

\* CLI invocations that may be in progress (two terminals).
Invokers == {1, 2}

\* ---------------------------------------------------- PID file contents
Digits == <<"0", "1", "2", "3", "4", "5", "6", "7", "8", "9">>

DigitChar(d) == Digits[d + 1]

IsDigit(c) == \E d \in 0..9 : Digits[d + 1] = c

DigitVal(c) == CHOOSE d \in 0..9 : Digits[d + 1] = c

RECURSIVE StrNat(_)
\* str(n) for n >= 0: the decimal digits, most significant first.
StrNat(n) == IF n < 10 THEN <<DigitChar(n)>>
             ELSE Append(StrNat(n \div 10), DigitChar(n % 10))

\* str(pid) as write_pid_file formats it.
Str(n) == IF n < 0 THEN <<"-">> \o StrNat(0 - n) ELSE StrNat(n)

RECURSIVE Strip(_)
\* text.strip(): leading and trailing blanks removed.
Strip(t) == IF t = <<>> THEN t
            ELSE IF Head(t) = " " THEN Strip(Tail(t))
            ELSE IF t[Len(t)] = " " THEN Strip(SubSeq(t, 1, Len(t) - 1))
            ELSE t

RECURSIVE DigitsVal(_, _)
DigitsVal(t, acc) == IF t = <<>> THEN acc
                     ELSE DigitsVal(Tail(t), 10 * acc + DigitVal(Head(t)))

AllDigits(t) == t # <<>> /\ \A k \in 1..Len(t) : IsDigit(t[k])

\* int(text.strip()): ok = FALSE stands for ValueError.
ParseInt(text) ==
    LET t == Strip(text) IN
    IF AllDigits(t) THEN [ok |-> TRUE, val |-> DigitsVal(t, 0)]
    ELSE IF t # <<>> /\ Head(t) = "-" /\ AllDigits(Tail(t))
         THEN [ok |-> TRUE, val |-> 0 - DigitsVal(Tail(t), 0)]
    ELSE [ok |-> FALSE, val |-> 0]

NoFile == [exists |-> FALSE, text |-> <<>>]

FileWith(t) == [exists |-> TRUE, text |-> t]

\* ------------------------------------------------------------- variables
VARIABLES
    pidFile,   \* the PID file of the working directory
    procs,     \* pid -> what the operating system runs under that pid
    cli,       \* invocation -> the state of that CLI process (see Idle)
    fsFaulty   \* the file system may fail operations on the PID file

vars == <<pidFile, procs, cli, fsFaulty>>

\* Process states: free (no such process), run (a server child), termd (a
\* server child that has received SIGTERM), killd (a server child that has
\* received SIGKILL and is about to disappear), alien (an unrelated process
\* of the same user), foreign (an unrelated process of another user).
ChildStates == {"run", "termd", "killd"}

\* ServerResult(success, message, details)
ServerResult(s, m, d) == [success |-> s, message |-> m, details |-> d]

NoResult == ServerResult(FALSE, "none", <<>>)

Detail(k, a) == [kind |-> k, arg |-> a]

\* What runs under pid p: a process state, "group" for the process groups
\* that pid <= 0 addresses, "free" for a pid the system does not use.
TargetOf(p) ==
    IF p \in Pids THEN procs[p] ELSE IF p <= 0 THEN "group" ELSE "free"

\* One os.kill, process.terminate(), time.sleep, open_process or
\* write_pid_file call, its outcome, and what ran under the pid when the call
\* was made.
Call(c, p, out) == [call |-> c, pid |-> p, out |-> out, target |-> TargetOf(p)]

\* No command has run in the terminal yet (or the last one was no CLI
\* command).
NoExit == -1

\* A CLI process that runs no command.
\*   op       the command: start_fg, start_detached, stop, is_running
\*   pc       its position in the code
\*   pid      local variable pid (parsed from the PID file)
\*   process  pid of the process it spawned, 0 for None
\*   exited   its child has exited (process.wait() may return)
\*   returncode  what process.wait() returns to a foreground start
\*   running  what is_server_running() returned
\*   checks   how many times is_server_running() has returned to it
\*   forced_termination  local variable of stop_server
\*   trace    the os.kill / terminate / sleep / open_process / write_pid_file
\*            calls it made, in order
\*   clears   how many times it called unlink on the PID file
\*   result   the ServerResult it returns
\*   intr     KeyboardInterrupts delivered to it
\*   file0    the PID file as it was when the command began
\*   exit     exit code of the command that ran before in this terminal
Idle == [op |-> "none", pc |-> "idle", pid |-> 0, process |-> 0,
         exited |-> FALSE, returncode |-> 0, running |-> FALSE, checks |-> 0,
         forced_termination |-> FALSE,
         trace |-> <<>>, clears |-> 0, result |-> NoResult, intr |-> 0,
         file0 |-> NoFile, exit |-> NoExit]

\* PID files that may be found in a working directory before any command of
\* this model has run: none, one left by a server that is gone, and files
\* with content that no write_pid_file produced.
InitFiles == {NoFile, FileWith(Str(FirstPid)), FileWith(Str(FirstPid + 1)),
              FileWith(<<"x">>), FileWith(<<"0">>), FileWith(<<"-", "1">>),
              FileWith(<<>>)}

InitState ==
    /\ pidFile \in InitFiles
    /\ procs = [p \in Pids |-> "free"]
    /\ cli = [i \in Invokers |-> Idle]

Init == InitState /\ fsFaulty = FALSE

InitFaults == InitState /\ fsFaulty = TRUE

\* ------------------------------------------------------------ os.kill
\* Outcome of os.kill(p, sig) for any sig: "ok", "esrch" (ProcessLookupError)
\* or "eperm" (PermissionError).  A pid <= 0 addresses a process group or
\* every process, which always exist.
KillOutcome(p) ==
    IF p <= 0 THEN "ok"
    ELSE IF p \notin Pids THEN "esrch"
    ELSE IF procs[p] = "free" THEN "esrch"
    ELSE IF procs[p] = "foreign" THEN "eperm"
    ELSE "ok"

\* What signal sig does to a process in state st that receives it.
Signalled(st, sig) ==
    CASE sig = "SIGTERM" -> (IF st = "run" THEN "termd" ELSE st)
      [] sig = "SIGKILL" -> (IF st \in ChildStates THEN "killd" ELSE "free")
      [] OTHER -> st

\* The processes that os.kill(p, sig) reaches: the one named p, or with
\* p = -1 every process the caller may signal (not the caller itself); the
\* process group of p = 0 holds the caller and none of these.
Reached(p) ==
    IF p = -1 THEN {q \in Pids : procs[q] \notin {"free", "foreign"}}
    ELSE IF p \in Pids /\ KillOutcome(p) = "ok" THEN {p}
    ELSE {}

\* What a delivered signal does to the process table.
Deliver(p, sig) ==
    [q \in Pids |-> IF q \in Reached(p) THEN Signalled(procs[q], sig)
                                         ELSE procs[q]]

\* ------------------------------------------------------------ PID file
\* Whether the next operation on the PID file fails with an I/O error.
Faults == IF fsFaulty THEN BOOLEAN ELSE {FALSE}

\* write_pid_file(p): open("w") then write(str(p)).  out is "ok", "eacces"
\* (open fails, the file is as before) or "enospc" (the file was created or
\* truncated and the write failed).
WriteOutcomes == IF fsFaulty THEN {"ok", "eacces", "enospc"} ELSE {"ok"}

\* Mutant: the file is opened in append mode.
write_pid_file_Appends(p, out) ==
    CASE out = "ok" -> FileWith(pidFile.text \o Str(p))
      [] out = "enospc" -> FileWith(pidFile.text)
      [] OTHER -> pidFile

\* Mutant: the file is created exclusively (mode "x"); a file that is there
\* is left as it is.
write_pid_file_Exclusive(p, out) ==
    IF pidFile.exists THEN pidFile ELSE FileWith(Str(p))

\* Mutant: the write is skipped.
write_pid_file_Skipped(p, out) == pidFile

write_pid_file(p, out) ==
    CASE out = "ok" -> FileWith(Str(p))
      [] out = "enospc" -> FileWith(<<>>)
      [] OTHER -> pidFile

\* unlink(missing_ok=True) raises: the file is there and cannot be removed.
UnlinkFails(fault) == fault /\ pidFile.exists

\* remove_pid_file(): get_pid_file().unlink(missing_ok=True)
remove_pid_file(fault) == IF UnlinkFails(fault) THEN pidFile ELSE NoFile

\* with pid_file.open() as f: pid = int(f.read().strip())
\* "oserror": the file is missing or cannot be opened; "valueerror": its
\* content is no integer.
read_pid(fault) ==
    LET parsed == ParseInt(pidFile.text) IN
    IF ~pidFile.exists \/ fault THEN [out |-> "oserror", pid |-> 0]
    ELSE IF ~parsed.ok THEN [out |-> "valueerror", pid |-> 0]
    ELSE [out |-> "ok", pid |-> parsed.val]

\* ------------------------------------------------------------- commands
Commands == {"start_fg", "start_detached", "stop", "is_running"}

\* Invocation i moves on with its state replaced by c.
Becomes(i, c) == cli' = [cli EXCEPT ![i] = c]

\* Where an invocation continues once is_server_running() has returned.
AfterCheck(o) ==
    CASE o \in {"start_fg", "start_detached"} -> "start_chk"
      [] o = "stop" -> "stop_chk"
      [] OTHER -> "done"

\* is_server_running() returns r to the command that called it.
Checked(c, r) ==
    [c EXCEPT !.running = r, !.checks = @ + 1, !.pc = AfterCheck(c.op)]

\* Mutant: the command does not call is_server_running() and goes on as if
\* no server were running.
Begin_Unchecked(i, o) ==
    /\ cli[i].pc = "idle"
    /\ Becomes(i, [Idle EXCEPT !.op = o, !.file0 = pidFile,
                               !.pc = IF o = "is_running" THEN "ir_exists"
                                      ELSE AfterCheck(o)])
    /\ UNCHANGED <<pidFile, procs, fsFaulty>>

\* A CLI invocation begins: start_server(detached), stop_server() or a bare
\* is_server_running(); each opens with is_server_running().
Begin(i, o) ==
    /\ cli[i].pc = "idle"
    /\ Becomes(i, [Idle EXCEPT !.op = o, !.pc = "ir_exists", !.file0 = pidFile])
    /\ UNCHANGED <<pidFile, procs, fsFaulty>>

\* detail.split('PID '): the pieces of a detail line around "PID ".  Only
\* "Server was running with PID n" and "Server with PID n was stopped"
\* contain it.
SplitOnPID(d) ==
    IF d.kind \in {"pid", "stopped"} THEN <<d.kind, d.arg>> ELSE <<d.kind>>

\* server_start / server_stop of main.py after start_server / stop_server
\* has ended in state c: the exit code of the CLI process.  An exception
\* that reaches typer (one that left the supervisor, or the IndexError of
\* result.details[0].split('PID ')[1]) ends the process with code 1, a
\* SIGTERM that the process sent to itself with 128 + 15.
ExitCode(c) ==
    CASE c.op = "is_running" -> NoExit
      [] c.pc = "raised" -> 1
      [] c.pc = "signalled" -> 128 + 15
      [] ~c.result.success -> 1
      [] c.op = "start_fg" /\ c.result.details # <<>>
                           /\ Len(SplitOnPID(c.result.details[1])) < 2 -> 1
      [] OTHER -> 0

\* The CLI layer reports the result and the invocation's process ends with
\* its exit code; its locals are gone.
Return(i) ==
    /\ cli[i].pc \in {"done", "raised", "signalled"}
    /\ Becomes(i, [Idle EXCEPT !.exit = ExitCode(cli[i])])
    /\ UNCHANGED <<pidFile, procs, fsFaulty>>

\* ----------------------------------------------------- is_server_running
\* Mutant: the read is attempted without the exists() test.
IsRunExists_NoTest(i) ==
    /\ cli[i].pc = "ir_exists"
    /\ Becomes(i, [cli[i] EXCEPT !.pc = "ir_read"])
    /\ UNCHANGED <<pidFile, procs, fsFaulty>>

\* if not pid_file.exists(): return False
IsRunExists(i) ==
    /\ cli[i].pc = "ir_exists"
    /\ Becomes(i, IF pidFile.exists
                  THEN [cli[i] EXCEPT !.pc = "ir_read"]
                  ELSE Checked(cli[i], FALSE))
    /\ UNCHANGED <<pidFile, procs, fsFaulty>>

\* with pid_file.open() as f: pid = int(f.read().strip())
IsRunRead(i) ==
    /\ cli[i].pc = "ir_read"
    /\ \E fault \in Faults :
         LET r == read_pid(fault) IN
         Becomes(i, IF r.out = "ok"
                    THEN [cli[i] EXCEPT !.pid = r.pid, !.pc = "ir_probe"]
                    ELSE [cli[i] EXCEPT !.pc = "ir_unlink"])
    /\ UNCHANGED <<pidFile, procs, fsFaulty>>

\* os.kill(pid, 0); except (ValueError, OSError, ProcessLookupError): stale
IsRunProbe(i) ==
    /\ cli[i].pc = "ir_probe"
    /\ LET out == KillOutcome(cli[i].pid)
           c == [cli[i] EXCEPT !.trace = Append(@, Call("kill0", cli[i].pid, out))]
       IN Becomes(i, IF out = "ok"
                     THEN Checked(c, TRUE)
                     ELSE [c EXCEPT !.pc = "ir_unlink"])
    /\ UNCHANGED <<pidFile, procs, fsFaulty>>

\* Mutant: the stale PID file is reported but not removed.
IsRunUnlink_KeepsFile(i) ==
    /\ cli[i].pc = "ir_unlink"
    /\ Becomes(i, [cli[i] EXCEPT !.running = FALSE, !.pc = AfterCheck(cli[i].op)])
    /\ UNCHANGED <<pidFile, procs, fsFaulty>>

\* pid_file.unlink(missing_ok=True); return False.  A failing unlink leaves
\* is_server_running, and its caller, as an exception.
IsRunUnlink(i) ==
    /\ cli[i].pc = "ir_unlink"
    /\ \E fault \in Faults :
         /\ pidFile' = remove_pid_file(fault)
         /\ Becomes(i, IF UnlinkFails(fault)
                       THEN [cli[i] EXCEPT !.clears = @ + 1, !.pc = "raised"]
                       ELSE Checked([cli[i] EXCEPT !.clears = @ + 1], FALSE))
    /\ UNCHANGED <<procs, fsFaulty>>


\* ---------------------------------------------------------- start_server
\* Mutant: start_server without the is_server_running() guard.
StartCheck_Unguarded(i) ==
    /\ cli[i].pc = "start_chk"
    /\ Becomes(i, [cli[i] EXCEPT
                     !.pc = IF cli[i].op = "start_detached"
                            THEN "dt_spawn" ELSE "fg_spawn"])
    /\ UNCHANGED <<pidFile, procs, fsFaulty>>

\* Mutant: a start is rejected whenever it found a PID file, stale or not.
StartCheck_RejectsRecord(i) ==
    /\ cli[i].pc = "start_chk"
    /\ Becomes(i, IF cli[i].running \/ cli[i].file0.exists
                  THEN [cli[i] EXCEPT
                          !.result = ServerResult(FALSE, "AlreadyRunning", <<>>),
                          !.pc = "done"]
                  ELSE [cli[i] EXCEPT
                          !.pc = IF cli[i].op = "start_detached"
                                 THEN "dt_spawn" ELSE "fg_spawn"])
    /\ UNCHANGED <<pidFile, procs, fsFaulty>>

\* if is_server_running(): return ServerResult(False, "already running")
StartCheck(i) ==
    /\ cli[i].pc = "start_chk"
    /\ Becomes(i, IF cli[i].running
                  THEN [cli[i] EXCEPT
                          !.result = ServerResult(FALSE, "AlreadyRunning", <<>>),
                          !.pc = "done"]
                  ELSE [cli[i] EXCEPT
                          !.pc = IF cli[i].op = "start_detached"
                                 THEN "dt_spawn" ELSE "fg_spawn"])
    /\ UNCHANGED <<pidFile, procs, fsFaulty>>

\* Pids the operating system may give to a new process.
FreePids == {p \in Pids : procs[p] = "free"}

\* trio.lowlevel.open_process(cmd): a new process p, or p = 0 when it raises.
open_process(p) ==
    /\ p \in FreePids \cup {0}
    /\ procs' = IF p = 0 THEN procs ELSE [procs EXCEPT ![p] = "run"]

\* Mutant: a failed spawn is not noticed and the start goes on to write the
\* PID file.
DetachedSpawn_RecordsAnyway(i) ==
    /\ cli[i].pc = "dt_spawn"
    /\ \E p \in Pids \cup {0} :
         /\ open_process(p)
         /\ Becomes(i, [cli[i] EXCEPT
                !.trace = Append(@, Call("open_process", p,
                                         IF p = 0 THEN "fail" ELSE "ok")),
                !.process = p, !.pc = "dt_write"])
    /\ UNCHANGED <<pidFile, fsFaulty>>

\* run_server_detached: process = await open_process(cmd); return process.pid
\* An exception is caught by _start_detached's "except Exception".
DetachedSpawn(i) ==
    /\ cli[i].pc = "dt_spawn"
    /\ \E p \in Pids \cup {0} :
         /\ open_process(p)
         /\ Becomes(i, IF p = 0
                       THEN [cli[i] EXCEPT
                               !.trace = Append(@, Call("open_process", 0, "fail")),
                               !.result = ServerResult(FALSE, "FailedToStartDetached", <<>>),
                               !.pc = "done"]
                       ELSE [cli[i] EXCEPT
                               !.trace = Append(@, Call("open_process", p, "ok")),
                               !.process = p, !.pc = "dt_write"])
    /\ UNCHANGED <<pidFile, fsFaulty>>

\* Mutant: the detached start removes the PID file on its way out, as the
\* foreground start does.
DetachedWrite_ClearsOnReturn(i) ==
    /\ cli[i].pc = "dt_write"
    /\ pidFile' = NoFile
    /\ Becomes(i, [cli[i] EXCEPT
           !.trace = Append(@, Call("write", cli[i].process, "ok")),
           !.result = ServerResult(TRUE, "StartedInBackground",
                          <<Detail("url", 0), Detail("hint", 0)>>),
           !.pc = "done"])
    /\ UNCHANGED <<procs, fsFaulty>>

\* _start_detached: write_pid_file(pid); return ServerResult(True, ...)
DetachedWrite(i) ==
    /\ cli[i].pc = "dt_write"
    /\ \E out \in WriteOutcomes :
         /\ pidFile' = write_pid_file(cli[i].process, out)
         /\ Becomes(i, [cli[i] EXCEPT
                !.trace = Append(@, Call("write", cli[i].process, out)),
                !.result = IF out = "ok"
                           THEN ServerResult(TRUE, "StartedInBackground",
                                    <<Detail("url", 0), Detail("hint", 0)>>)
                           ELSE ServerResult(FALSE, "FailedToStartDetached", <<>>),
                !.pc = "done"])
    /\ UNCHANGED <<procs, fsFaulty>>

\* ------------------------------------------------- run_server_foreground
\* process = await trio.lowlevel.open_process(cmd)
ForegroundSpawn(i) ==
    /\ cli[i].pc = "fg_spawn"
    /\ \E p \in Pids \cup {0} :
         /\ open_process(p)
         /\ Becomes(i, IF p = 0
                       THEN [cli[i] EXCEPT
                               !.trace = Append(@, Call("open_process", 0, "fail")),
                               !.result = ServerResult(FALSE, "FailedToStart", <<>>),
                               !.pc = "fg_finally"]
                       ELSE [cli[i] EXCEPT
                               !.trace = Append(@, Call("open_process", p, "ok")),
                               !.process = p, !.pc = "fg_write"])
    /\ UNCHANGED <<pidFile, fsFaulty>>

\* write_pid_file(process.pid)
ForegroundWrite(i) ==
    /\ cli[i].pc = "fg_write"
    /\ \E out \in WriteOutcomes :
         /\ pidFile' = write_pid_file(cli[i].process, out)
         /\ LET c == [cli[i] EXCEPT
                        !.trace = Append(@, Call("write", cli[i].process, out))]
            IN Becomes(i, IF out = "ok"
                          THEN [c EXCEPT !.pc = "fg_wait"]
                          ELSE [c EXCEPT
                                  !.result = ServerResult(FALSE, "FailedToStart", <<>>),
                                  !.pc = "fg_finally"])
    /\ UNCHANGED <<procs, fsFaulty>>

\* Mutant: a child that ended with a non-zero exit code makes the start a
\* failure.
ForegroundWait_FailsOnNonZero(i) ==
    /\ cli[i].pc = "fg_wait"
    /\ cli[i].exited
    /\ Becomes(i, [cli[i] EXCEPT
           !.result = IF cli[i].returncode = 0
                      THEN ServerResult(TRUE, "StoppedWithExitCode",
                               <<Detail("pid", cli[i].process), Detail("url", 0)>>)
                      ELSE ServerResult(FALSE, "FailedToStart", <<>>),
           !.pc = "fg_finally"])
    /\ UNCHANGED <<pidFile, procs, fsFaulty>>

\* result = await process.wait(); return ServerResult(True, "exit code", ...)
\* The exit code goes into the message only.
ForegroundWait(i) ==
    /\ cli[i].pc = "fg_wait"
    /\ cli[i].exited
    /\ Becomes(i, [cli[i] EXCEPT
           !.result = ServerResult(TRUE, "StoppedWithExitCode",
                          <<Detail("pid", cli[i].process), Detail("url", 0)>>),
           !.pc = "fg_finally"])
    /\ UNCHANGED <<pidFile, procs, fsFaulty>>

\* Where a KeyboardInterrupt raised at position at takes the foreground
\* start: inside the try block it is caught (with no process yet, the handler
\* returns at once); inside the handler's own wait it leaves the function
\* once the finally block has run.
InterruptTarget(at) ==
    CASE at = "fg_spawn" -> "fg_user"
      [] at = "fg_wait2" -> "fg_reraise"
      [] OTHER -> "fg_term"

KeyboardInterrupt(i) ==
    /\ cli[i].pc \in {"fg_spawn", "fg_write", "fg_wait", "fg_wait2"}
    /\ Becomes(i, [cli[i] EXCEPT !.intr = @ + 1, !.pc = InterruptTarget(cli[i].pc)])
    /\ UNCHANGED <<pidFile, procs, fsFaulty>>

\* if process: process.terminate() -- SIGTERM to the child unless it has
\* already exited
ForegroundTerminate(i) ==
    /\ cli[i].pc = "fg_term"
    /\ procs' = (IF cli[i].exited THEN procs ELSE Deliver(cli[i].process, "SIGTERM"))
    /\ Becomes(i, [cli[i] EXCEPT
           !.trace = Append(@, Call("terminate", cli[i].process,
                                    IF cli[i].exited THEN "gone" ELSE "ok")),
           !.pc = "fg_wait2"])
    /\ UNCHANGED <<pidFile, fsFaulty>>

\* Mutant: the handler does not wait for the child after terminate().
ForegroundWaitAgain_NoWait(i) ==
    /\ cli[i].pc = "fg_wait2"
    /\ Becomes(i, [cli[i] EXCEPT !.pc = "fg_user"])
    /\ UNCHANGED <<pidFile, procs, fsFaulty>>

\* await process.wait() in the handler
ForegroundWaitAgain(i) ==
    /\ cli[i].pc = "fg_wait2"
    /\ cli[i].exited
    /\ Becomes(i, [cli[i] EXCEPT !.pc = "fg_user"])
    /\ UNCHANGED <<pidFile, procs, fsFaulty>>

\* return ServerResult(success=True, message="Server stopped by user", ...)
ForegroundUserStop(i) ==
    /\ cli[i].pc = "fg_user"
    /\ Becomes(i, [cli[i] EXCEPT
           !.result = ServerResult(TRUE, "StoppedByUser", <<Detail("ctrl_c", 0)>>),
           !.pc = "fg_finally"])
    /\ UNCHANGED <<pidFile, procs, fsFaulty>>

\* Mutant: no finally block; the function is left without remove_pid_file().
Finally_Missing(i, reraise) ==
    /\ pidFile' = pidFile
    /\ Becomes(i, [cli[i] EXCEPT !.pc = IF reraise THEN "raised" ELSE "done"])

\* finally: remove_pid_file(), on the way out of a return (reraise = FALSE)
\* or of an exception that no handler caught (reraise = TRUE).  A failing
\* unlink leaves the function as an exception, too.
Finally(i, reraise) ==
    \E fault \in Faults :
        /\ pidFile' = remove_pid_file(fault)
        /\ Becomes(i, [cli[i] EXCEPT
               !.clears = @ + 1,
               !.pc = IF UnlinkFails(fault) \/ reraise THEN "raised" ELSE "done"])

ForegroundFinally(i) ==
    /\ cli[i].pc \in {"fg_finally", "fg_reraise"}
    /\ Finally(i, cli[i].pc = "fg_reraise")
    /\ UNCHANGED <<procs, fsFaulty>>


\* ----------------------------------------------------------- stop_server
\* if not is_server_running(): return ServerResult(False, "No server ...")
StopCheck(i) ==
    /\ cli[i].pc = "stop_chk"
    /\ Becomes(i, IF cli[i].running
                  THEN [cli[i] EXCEPT !.pc = "st_read"]
                  ELSE [cli[i] EXCEPT
                          !.result = ServerResult(FALSE, "NotRunning", <<>>),
                          !.pc = "done"])
    /\ UNCHANGED <<pidFile, procs, fsFaulty>>

\* Mutant: stop_server does not read the PID file again and signals the pid
\* that is_server_running() probed.
StopRead_TrustsCheck(i) ==
    /\ cli[i].pc = "st_read"
    /\ Becomes(i, [cli[i] EXCEPT !.pc = "st_term"])
    /\ UNCHANGED <<pidFile, procs, fsFaulty>>

\* with pid_file.open() as f: pid = int(f.read().strip())
\* A missing file, an unreadable file and unparsable content all reach the
\* outer "except (ValueError, OSError)".
StopRead(i) ==
    /\ cli[i].pc = "st_read"
    /\ \E fault \in Faults :
         LET r == read_pid(fault) IN
         Becomes(i, IF r.out = "ok"
                    THEN [cli[i] EXCEPT !.pid = r.pid, !.pc = "st_term"]
                    ELSE [cli[i] EXCEPT !.pc = "st_errclear"])
    /\ UNCHANGED <<pidFile, procs, fsFaulty>>

\* Mutant: stop_server signals the recorded pid only when a server child
\* runs under it, and treats any other process as a stale record.
StopTerm_OnlyServers(i) ==
    /\ cli[i].pc = "st_term"
    /\ LET out == KillOutcome(cli[i].pid)
           ours == TargetOf(cli[i].pid) \in ChildStates IN
         /\ procs' = IF ours THEN Deliver(cli[i].pid, "SIGTERM") ELSE procs
         /\ Becomes(i, IF ours
                       THEN [cli[i] EXCEPT
                               !.trace = Append(@, Call("SIGTERM", cli[i].pid, out)),
                               !.pc = "st_sleep"]
                       ELSE [cli[i] EXCEPT !.pc = "st_errclear"])
    /\ UNCHANGED <<pidFile, fsFaulty>>

\* os.kill(pid, signal.SIGTERM).  With pid = 0 the signal goes to the
\* caller's own process group: the CLI process is terminated by it.
StopTerm(i) ==
    /\ cli[i].pc = "st_term"
    /\ LET out == KillOutcome(cli[i].pid) IN
         /\ procs' = Deliver(cli[i].pid, "SIGTERM")
         /\ Becomes(i, [cli[i] EXCEPT
                !.trace = Append(@, Call("SIGTERM", cli[i].pid, out)),
                !.pc = IF cli[i].pid = 0 THEN "signalled"
                       ELSE IF out = "ok" THEN "st_sleep" ELSE "st_errclear"])
    /\ UNCHANGED <<pidFile, fsFaulty>>

\* time.sleep(1); forced_termination = False
StopSleep(i) ==
    /\ cli[i].pc = "st_sleep"
    /\ Becomes(i, [cli[i] EXCEPT
           !.trace = Append(@, Call("sleep", 0, "ok")),
           !.forced_termination = FALSE,
           !.pc = "st_probe"])
    /\ UNCHANGED <<pidFile, procs, fsFaulty>>

\* Where stop_server continues after the re-probe os.kill(pid, 0):
\* ProcessLookupError is the "already stopped" path, any other OSError
\* reaches the outer except.
\* Mutant: the forced signal is sent whatever the re-probe found.
AfterProbe_KillAnyway(out) == IF out = "eperm" THEN "st_errclear" ELSE "st_kill"

\* Mutant: no escalation; a process that is still there after the grace
\* interval is left to itself.
AfterProbe_NoEscalation(out) == IF out = "eperm" THEN "st_errclear" ELSE "st_clear"

AfterProbe(out) ==
    CASE out = "ok" -> "st_kill"
      [] out = "esrch" -> "st_clear"
      [] OTHER -> "st_errclear"

StopProbe(i) ==
    /\ cli[i].pc = "st_probe"
    /\ LET out == KillOutcome(cli[i].pid) IN
         Becomes(i, [cli[i] EXCEPT
             !.trace = Append(@, Call("kill0", cli[i].pid, out)),
             !.pc = AfterProbe(out)])
    /\ UNCHANGED <<pidFile, procs, fsFaulty>>

\* Mutant: forced_termination is set before the kill is known to succeed.
StopKill_FlagFirst(i) ==
    /\ cli[i].pc = "st_kill"
    /\ LET out == KillOutcome(cli[i].pid) IN
         /\ procs' = Deliver(cli[i].pid, "SIGKILL")
         /\ Becomes(i, [cli[i] EXCEPT
                !.trace = Append(@, Call("SIGKILL", cli[i].pid, out)),
                !.forced_termination = TRUE,
                !.pc = IF out = "eperm" THEN "st_errclear" ELSE "st_clear"])
    /\ UNCHANGED <<pidFile, fsFaulty>>

\* os.kill(pid, signal.SIGKILL); forced_termination = True
\* ProcessLookupError is passed over by the inner except.
StopKill(i) ==
    /\ cli[i].pc = "st_kill"
    /\ LET out == KillOutcome(cli[i].pid) IN
         /\ procs' = Deliver(cli[i].pid, "SIGKILL")
         /\ Becomes(i, [cli[i] EXCEPT
                !.trace = Append(@, Call("SIGKILL", cli[i].pid, out)),
                !.forced_termination = (out = "ok"),
                !.pc = IF out = "eperm" THEN "st_errclear" ELSE "st_clear"])
    /\ UNCHANGED <<pidFile, fsFaulty>>

\* details of the successful stop result
StopDetails(p, f) ==
    IF f THEN <<Detail("stopped", p), Detail("force-terminated", 0)>>
    ELSE <<Detail("stopped", p)>>

\* Mutant: the final clear leaves a PID file that holds another pid than the
\* one stop_server signalled.
StopClear_OnlyOwn(i) ==
    /\ cli[i].pc = "st_clear"
    /\ pidFile' = IF pidFile = FileWith(Str(cli[i].pid)) THEN NoFile ELSE pidFile
    /\ Becomes(i, [cli[i] EXCEPT
           !.clears = @ + 1,
           !.result = ServerResult(TRUE, "StoppedSuccessfully",
                          StopDetails(cli[i].pid, cli[i].forced_termination)),
           !.pc = "done"])
    /\ UNCHANGED <<procs, fsFaulty>>

\* remove_pid_file(); return ServerResult(True, "Server stopped successfully")
StopClear(i) ==
    /\ cli[i].pc = "st_clear"
    /\ \E fault \in Faults :
         /\ pidFile' = remove_pid_file(fault)
         /\ Becomes(i, IF UnlinkFails(fault)
                THEN [cli[i] EXCEPT !.clears = @ + 1, !.pc = "st_errclear"]
                ELSE [cli[i] EXCEPT
                        !.clears = @ + 1,
                        !.result = ServerResult(TRUE, "StoppedSuccessfully",
                            StopDetails(cli[i].pid, cli[i].forced_termination)),
                        !.pc = "done"])
    /\ UNCHANGED <<procs, fsFaulty>>

\* Mutant: the except branch returns the failure without remove_pid_file().
StopErrorClear_NoCleanup(i) ==
    /\ cli[i].pc = "st_errclear"
    /\ Becomes(i, [cli[i] EXCEPT
           !.result = ServerResult(FALSE, "ErrorStopping", <<>>),
           !.pc = "done"])
    /\ UNCHANGED <<pidFile, procs, fsFaulty>>

\* except (ValueError, OSError): remove_pid_file(); return ServerResult(False, ...)
StopErrorClear(i) ==
    /\ cli[i].pc = "st_errclear"
    /\ \E fault \in Faults :
         /\ pidFile' = remove_pid_file(fault)
         /\ Becomes(i, IF UnlinkFails(fault)
                THEN [cli[i] EXCEPT !.clears = @ + 1, !.pc = "raised"]
                ELSE [cli[i] EXCEPT
                        !.clears = @ + 1,
                        !.result = ServerResult(FALSE, "ErrorStopping", <<>>),
                        !.pc = "done"])
    /\ UNCHANGED <<procs, fsFaulty>>

\* ----------------------------------------------------------- environment
\* What process.wait() returns for a child that exits from state st: the
\* exit code the server chose, or the negated number of the signal that
\* ended it.
ReturnCodes(st) ==
    CASE st = "run" -> {0, 1}
      [] st = "termd" -> {0, 0 - 15}
      [] OTHER -> {0 - 9}

\* A server child exits (on its own, or because of a signal it received);
\* the invocation that holds its handle learns of it, and a foreground
\* start, which waits for the child, gets its exit code.
ChildExit(p) ==
    /\ procs[p] \in ChildStates
    /\ procs' = [procs EXCEPT ![p] = "free"]
    /\ \E rc \in ReturnCodes(procs[p]) :
         cli' = [i \in Invokers |->
                   IF cli[i].process = p
                   THEN [cli[i] EXCEPT
                           !.exited = TRUE,
                           !.returncode = IF cli[i].op = "start_fg" THEN rc ELSE @]
                   ELSE cli[i]]
    /\ UNCHANGED <<pidFile, fsFaulty>>

\* The operating system gives a free pid to a process that is not ours.
UnrelatedStart(p, kind) ==
    /\ procs[p] = "free"
    /\ procs' = [procs EXCEPT ![p] = kind]
    /\ UNCHANGED <<pidFile, cli, fsFaulty>>

UnrelatedExit(p) ==
    /\ procs[p] \in {"alien", "foreign"}
    /\ procs' = [procs EXCEPT ![p] = "free"]
    /\ UNCHANGED <<pidFile, cli, fsFaulty>>

\* ------------------------------------------------------- specifications
\* The statements of the supervisor that invocation i executes when no
\* KeyboardInterrupt is raised in it.
Uninterrupted(i) ==
    \/ IsRunExists(i) \/ IsRunRead(i) \/ IsRunProbe(i) \/ IsRunUnlink(i)
    \/ StartCheck(i)
    \/ DetachedSpawn(i) \/ DetachedWrite(i)
    \/ ForegroundSpawn(i) \/ ForegroundWrite(i) \/ ForegroundWait(i)
    \/ ForegroundFinally(i)
    \/ StopCheck(i) \/ StopRead(i) \/ StopTerm(i) \/ StopSleep(i)
    \/ StopProbe(i) \/ StopKill(i) \/ StopClear(i) \/ StopErrorClear(i)

\* The statements of the supervisor that invocation i executes: the above
\* and the "except KeyboardInterrupt" handler of run_server_foreground.
Code(i) ==
    \/ Uninterrupted(i)
    \/ ForegroundTerminate(i) \/ ForegroundWaitAgain(i) \/ ForegroundUserStop(i)

\* The steps invocation i takes by itself, once it can.
Progress(i) == Code(i) \/ Return(i)

\* A step of invocation i: its own code, or the operator pressing Ctrl+C.
Step(i) == Progress(i) \/ KeyboardInterrupt(i)

Environment ==
    \/ \E p \in Pids : ChildExit(p)
    \/ \E p \in Pids, kind \in {"alien", "foreign"} : UnrelatedStart(p, kind)
    \/ \E p \in Pids : UnrelatedExit(p)

AllIdle == \A j \in Invokers : cli[j].pc = "idle"

\* One command at a time per working directory (which terminal issues it
\* makes no difference, so it is the first).
BeginAlone(i, o) == AllIdle /\ Begin(i, o)

Next ==
    \/ \E o \in Commands : BeginAlone(1, o)
    \/ \E i \in Invokers : Step(i)
    \/ Environment

\* One command at a time, healthy file system.
Spec == Init /\ [][Next]_vars

\* One command at a time; operations on the PID file may fail.
SpecFaults == InitFaults /\ [][Next]_vars

\* One command at a time, healthy file system, and every invocation that
\* can take a step of its own code eventually takes it (the CLI process is
\* scheduled, time.sleep returns).  Nothing obliges a child to exit, the
\* operator to press Ctrl+C or unrelated processes to come and go.
SpecLive == Init /\ [][Next]_vars /\ \A i \in Invokers : WF_vars(Progress(i))

\* Two terminals, one command each, at the same time, in a directory that
\* is empty or in which a detached server runs with its PID file; healthy
\* file system, no unrelated processes, no Ctrl+C.
OverlapCommands == {"start_fg", "start_detached", "stop"}

InitOverlap ==
    /\ \/ pidFile = NoFile /\ procs = [p \in Pids |-> "free"]
       \/ /\ pidFile = FileWith(Str(FirstPid))
          /\ procs = [p \in Pids |-> IF p = FirstPid THEN "run" ELSE "free"]
    /\ cli = [i \in Invokers |-> Idle]
    /\ fsFaulty = FALSE

NextOverlap ==
    \/ \E i \in Invokers, o \in OverlapCommands : Begin(i, o)
    \/ \E i \in Invokers : Uninterrupted(i)
    \/ \E p \in Pids : ChildExit(p)

SpecOverlap == InitOverlap /\ [][NextOverlap]_vars

\* Two terminals as in SpecOverlap; every invocation that can take a step
\* of its code eventually takes it, and a child that has received SIGKILL
\* disappears.  Nothing obliges a child to exit by itself or on SIGTERM.
SpecOverlapLive ==
    /\ SpecOverlap
    /\ \A i \in Invokers : WF_vars(Uninterrupted(i))
    /\ \A p \in Pids : WF_vars(procs[p] = "killd" /\ ChildExit(p))

\* ------------------------------------------- the PID-file functions alone
\* write_pid_file, the read of is_server_running / stop_server and
\* remove_pid_file called directly, in any order, on a healthy file system;
\* the calls and what the read returned are kept in the trace of
\* invocation 1.
StoreCall(c, p, out) ==
    /\ Len(cli[1].trace) < MaxStoreCalls
    /\ Becomes(1, [cli[1] EXCEPT !.op = "store", !.pid = p,
                                 !.trace = Append(@, Call(c, p, out))])

\* write_pid_file(p)
StoreWrite(p) ==
    /\ StoreCall("write", p, "ok")
    /\ pidFile' = write_pid_file(p, "ok")
    /\ UNCHANGED <<procs, fsFaulty>>

\* with pid_file.open() as f: pid = int(f.read().strip())
StoreRead ==
    /\ LET r == read_pid(FALSE) IN StoreCall("read", r.pid, r.out)
    /\ UNCHANGED <<pidFile, procs, fsFaulty>>

\* remove_pid_file()
StoreClear ==
    /\ StoreCall("clear", 0, IF UnlinkFails(FALSE) THEN "oserror" ELSE "ok")
    /\ pidFile' = remove_pid_file(FALSE)
    /\ UNCHANGED <<procs, fsFaulty>>

NextStore ==
    \/ \E p \in StorePids : StoreWrite(p)
    \/ StoreRead
    \/ StoreClear

SpecStore == Init /\ [][NextStore]_vars

\* =================================================================== claims
Starts == {"start_fg", "start_detached"}

\* Trace entry e is the call c on pid p with outcome out.
IsCall(e, c, p, out) == e.call = c /\ e.pid = p /\ e.out = out

\* The PID file holds exactly the decimal text of pid p.
Holds(f, p) == f.exists /\ ParseInt(f.text) = [ok |-> TRUE, val |-> p]

\* ----------------------------------------------------------------- C1
\* A start whose is_server_running() returned True has spawned nothing,
\* called no unlink and made no os.kill call but the zero-effect probe.
SawRunning(i) == cli[i].op \in Starts /\ cli[i].running

Untouched(i) ==
    /\ cli[i].process = 0
    /\ cli[i].clears = 0
    /\ Len(cli[i].trace) = 1
    /\ IsCall(cli[i].trace[1], "kill0", cli[i].pid, "ok")
    /\ pidFile = cli[i].file0
    /\ Holds(pidFile, cli[i].pid)
    /\ cli[i].pc \in {"start_chk", "done"}
    /\ cli[i].pc = "done" =>
         cli[i].result = ServerResult(FALSE, "AlreadyRunning", <<>>)

\* C1: a start (foreground or detached) that finds is_running() true returns
\* the AlreadyRunning failure, spawns no process, sends no signal and leaves
\* the PID file and every process as they were: the same pid stays persisted.
C1_AlreadyRunningChangesNothing ==
    [][\A i \in Invokers :
         SawRunning(i) =>
           /\ Untouched(i)
           /\ (cli'[i] # cli[i] /\ cli'[i].op # "none") =>
                /\ cli'[i].pc = "done"
                /\ cli'[i].result = ServerResult(FALSE, "AlreadyRunning", <<>>)
                /\ UNCHANGED <<pidFile, procs>>]_vars

\* A second detached start has returned AlreadyRunning while the server that
\* the PID file names is running.
C1_Witness ==
    \E i \in Invokers :
        /\ cli[i].op = "start_detached"
        /\ cli[i].pc = "done"
        /\ cli[i].result.message = "AlreadyRunning"
        /\ cli[i].pid \in Pids
        /\ procs[cli[i].pid] = "run"


\* ----------------------------------------------------------------- C2
IsDone(i, o) == cli[i].op = o /\ cli[i].pc = "done"

\* The PID file f names a server child that is alive.
NamesLiveChild(f) ==
    \E p \in Pids : Holds(f, p) /\ procs[p] \in ChildStates

\* C2: when start(Detached) returns success the PID file exists and holds
\* exactly the pid of the child this start spawned; and an is_running() made
\* while the PID file names a child that is alive returns true and keeps
\* the file.
C2_DetachedStartIsRecorded ==
    \A i \in Invokers :
        /\ (IsDone(i, "start_detached") /\ cli[i].result.success) =>
              /\ cli[i].process \in Pids
              /\ pidFile = FileWith(Str(cli[i].process))
              /\ Holds(pidFile, cli[i].process)
        /\ (IsDone(i, "is_running") /\ NamesLiveChild(cli[i].file0)) =>
              /\ cli[i].running
              /\ pidFile = cli[i].file0

\* is_running() has returned true for the running child of a detached start.
C2_Witness ==
    \E i \in Invokers :
        /\ IsDone(i, "is_running")
        /\ cli[i].running
        /\ cli[i].pid = FirstPid + 1
        /\ Holds(pidFile, FirstPid + 1)
        /\ procs[FirstPid + 1] = "run"


\* ----------------------------------------------------------------- C3
\* is_server_running() read pid p from the PID file and its probe found no
\* such process.
FoundStale(i) ==
    \E p \in Pids :
        /\ Holds(cli[i].file0, p)
        /\ Len(cli[i].trace) = 1
        /\ IsCall(cli[i].trace[1], "kill0", p, "esrch")

\* C3: an is_running() that finds the recorded process gone returns false
\* and has removed the PID file (one unlink); an is_running() that begins
\* with no PID file (as the next call does) returns false, raises nothing,
\* calls no unlink and leaves the file absent.
C3_StaleRecordIsRemoved ==
    \A i \in Invokers :
        cli[i].op = "is_running" =>
            /\ cli[i].pc # "raised"
            /\ (cli[i].pc = "done" /\ FoundStale(i)) =>
                  /\ ~cli[i].running
                  /\ pidFile = NoFile
                  /\ cli[i].clears = 1
            /\ (cli[i].pc = "done" /\ cli[i].file0 = NoFile) =>
                  /\ ~cli[i].running
                  /\ pidFile = NoFile
                  /\ cli[i].clears = 0
                  /\ cli[i].trace = <<>>

\* is_running() has returned false for a PID file whose process is gone.
C3_Witness ==
    \E i \in Invokers :
        /\ IsDone(i, "is_running")
        /\ FoundStale(i)
        /\ ~cli[i].running
        /\ pidFile = NoFile


\* ----------------------------------------------------------------- C4
\* C4: with no PID file, is_running() returns false and stop() returns the
\* NotRunning failure; neither makes an os.kill call, spawns, calls unlink or
\* creates the file, which stays absent throughout.
C4_NoRecordNothingTouched ==
    \A i \in Invokers :
        (cli[i].op \in {"stop", "is_running"} /\ cli[i].file0 = NoFile) =>
            /\ cli[i].pc # "raised"
            /\ cli[i].trace = <<>>
            /\ cli[i].clears = 0
            /\ cli[i].process = 0
            /\ pidFile = NoFile
            /\ cli[i].pc = "done" =>
                 /\ ~cli[i].running
                 /\ cli[i].op = "stop" =>
                      cli[i].result = ServerResult(FALSE, "NotRunning", <<>>)

\* stop() has returned NotRunning in a directory without PID file.
C4_Witness ==
    \E i \in Invokers :
        /\ IsDone(i, "stop")
        /\ cli[i].file0 = NoFile
        /\ cli[i].result.message = "NotRunning"


\* ----------------------------------------------------------------- C5
\* The result carries the forced-termination notice.
HasNotice(r) ==
    \E k \in 1..Len(r.details) : r.details[k].kind = "force-terminated"

\* Invocation i made the call c (any pid), with outcome out.
Made(i, c, out) ==
    \E k \in 1..Len(cli[i].trace) :
        cli[i].trace[k].call = c /\ cli[i].trace[k].out = out

Called(i, c) == \E out \in {"ok", "esrch", "eperm", "gone"} : Made(i, c, out)

\* stop() has returned after its grace interval; its trace then reads
\* kill0 (is_running), SIGTERM, sleep, kill0 (the re-probe), ...  The
\* SIGTERM went to a running server child.
StoppedAfterGrace(i) ==
    /\ IsDone(i, "stop")
    /\ Len(cli[i].trace) >= 4
    /\ cli[i].trace[2].target \in ChildStates

ReProbe(i) == cli[i].trace[4]

\* C5 as stated: the notice is there exactly if the re-probe found the
\* process alive, a forced signal is sent exactly then, and stop() returns
\* success with the PID file gone either way.
C5_NoticeIffAliveAtReProbe ==
    \A i \in Invokers :
        StoppedAfterGrace(i) =>
            /\ HasNotice(cli[i].result) <=> (ReProbe(i).out # "esrch")
            /\ Called(i, "SIGKILL") <=> (ReProbe(i).out # "esrch")
            /\ cli[i].result.success
            /\ pidFile = NoFile

\* C5 (amended): the notice is there exactly if the forced signal was
\* delivered, which needs a re-probe that succeeded; after a re-probe that
\* says "no such process" no forced signal is sent and stop() succeeds; stop()
\* fails (generic failure) exactly if the re-probe or the forced signal was
\* refused with a permission error; the PID file is gone in every case.
C5_NoticeIffForcedSignalDelivered ==
    \A i \in Invokers :
        StoppedAfterGrace(i) =>
            /\ HasNotice(cli[i].result) <=> Made(i, "SIGKILL", "ok")
            /\ Called(i, "SIGKILL") <=> (ReProbe(i).out = "ok")
            /\ ReProbe(i).out = "esrch" => cli[i].result.success
            /\ cli[i].result.success <=>
                 ~(ReProbe(i).out = "eperm" \/ Made(i, "SIGKILL", "eperm"))
            /\ ~cli[i].result.success =>
                 cli[i].result = ServerResult(FALSE, "ErrorStopping", <<>>)
            /\ pidFile = NoFile

\* stop() has force-terminated a server child that was still there after the
\* grace interval, and says so.
C5_Witness ==
    \E i \in Invokers :
        /\ StoppedAfterGrace(i)
        /\ HasNotice(cli[i].result)
        /\ cli[i].result.success
        /\ cli[i].pid \in Pids
        /\ procs[cli[i].pid] = "killd"
        /\ pidFile = NoFile


\* ----------------------------------------------------------------- C6
\* The calls of one stop(), in order: the probe of is_server_running, the
\* graceful signal, the grace interval, the re-probe, the forced signal.
Escalation == <<"kill0", "SIGTERM", "sleep", "kill0", "SIGKILL">>

\* C6: the calls of a stop() are a prefix of the escalation sequence, each
\* made only after the one before it succeeded (the forced signal only
\* after a re-probe that found the process), all on the same pid; a
\* successful stop() has sent exactly one graceful signal, slept and
\* re-probed, and sent at most one forced signal.
C6_EscalationOrder ==
    \A i \in Invokers :
        cli[i].op = "stop" =>
            LET t == cli[i].trace IN
            /\ Len(t) <= Len(Escalation)
            /\ \A k \in 1..Len(t) :
                 /\ t[k].call = Escalation[k]
                 /\ k > 1 => t[k - 1].out = "ok"
                 /\ t[k].call # "sleep" => t[k].pid = t[1].pid
            /\ (cli[i].pc = "done" /\ cli[i].result.success) => Len(t) >= 4

\* stop() has gone through the whole escalation against a server child.
C6_Witness ==
    \E i \in Invokers :
        /\ IsDone(i, "stop")
        /\ Len(cli[i].trace) = 5
        /\ IsCall(cli[i].trace[5], "SIGKILL", cli[i].pid, "ok")
        /\ cli[i].trace[5].target \in ChildStates


\* ----------------------------------------------------------------- C7
\* The foreground start went past the is_server_running() check, into
\* run_server_foreground, and has left it.
LeftForeground(i) ==
    /\ cli[i].op = "start_fg"
    /\ cli[i].pc \in {"done", "raised"}
    /\ \/ cli[i].process # 0
       \/ cli[i].intr > 0
       \/ cli[i].result.message \notin {"none", "AlreadyRunning"}

\* Unlink calls that is_server_running() made before it let a start pass: one
\* if there was a (stale) PID file, none otherwise.
StaleClears(i) == IF cli[i].file0.exists THEN 1 ELSE 0

\* C7: a foreground start that passed the is_running() check has called
\* clear() exactly once on its way out, on every exit path (child exit,
\* interrupt, spawn failure, failed write of the PID file), and when it
\* returns a result the PID file is absent.
C7_ForegroundAlwaysClears ==
    \A i \in Invokers :
        LeftForeground(i) =>
            /\ cli[i].clears = StaleClears(i) + 1
            /\ cli[i].pc = "done" => pidFile = NoFile

\* A foreground start whose child was spawned but whose PID file could not
\* be written has returned its failure with the file removed.
C7_Witness ==
    \E i \in Invokers :
        /\ IsDone(i, "start_fg")
        /\ cli[i].process # 0
        /\ cli[i].result = ServerResult(FALSE, "FailedToStart", <<>>)
        /\ cli[i].clears = StaleClears(i) + 1
        /\ pidFile = NoFile


\* ----------------------------------------------------------------- C8
\* How many times invocation i called process.terminate().
Terminates(i) ==
    Cardinality({k \in 1..Len(cli[i].trace) : cli[i].trace[k].call = "terminate"})

\* C8: a foreground start that received one interrupt returns (raises
\* nothing) the success result "stopped by user" with the PID file absent;
\* if its child existed it called terminate() on it exactly once and
\* returned only after the child had exited; if no child existed yet it
\* called terminate() not at all and still cleared the PID file.
C8_InterruptedForegroundStart ==
    \A i \in Invokers :
        (cli[i].op = "start_fg" /\ cli[i].pc \in {"done", "raised"}
         /\ cli[i].intr = 1) =>
            /\ cli[i].pc = "done"
            /\ cli[i].result =
                 ServerResult(TRUE, "StoppedByUser", <<Detail("ctrl_c", 0)>>)
            /\ pidFile = NoFile
            /\ cli[i].clears = StaleClears(i) + 1
            /\ IF cli[i].process # 0
               THEN /\ Terminates(i) = 1
                    /\ \E k \in 1..Len(cli[i].trace) :
                         /\ cli[i].trace[k].call = "terminate"
                         /\ cli[i].trace[k].pid = cli[i].process
                    /\ cli[i].exited
               ELSE Terminates(i) = 0

\* The example scenario: no PID file, foreground start, an interrupt while
\* the child runs, terminate() reaches the running child, success.
C8_Witness ==
    \E i \in Invokers :
        /\ IsDone(i, "start_fg")
        /\ cli[i].file0 = NoFile
        /\ cli[i].intr = 1
        /\ Made(i, "terminate", "ok")
        /\ cli[i].result.message = "StoppedByUser"
        /\ pidFile = NoFile


\* ----------------------------------------------------------------- C9
\* C9: a stop() that passed its is_running() check and returns a result
\* (success or the generic failure) has called unlink and leaves no PID
\* file, whichever path it took: graceful or forced termination, a graceful
\* signal that could not be sent, a re-probe that failed, a PID file that
\* could not be read.
C9_StopLeavesNoRecord ==
    \A i \in Invokers :
        (IsDone(i, "stop") /\ cli[i].running) =>
            /\ pidFile = NoFile
            /\ cli[i].clears >= 1
            /\ cli[i].result.message \in {"StoppedSuccessfully", "ErrorStopping"}

\* stop() found the process gone when it sent the graceful signal, returned
\* the generic failure and removed the PID file.
C9_Witness ==
    \E i \in Invokers :
        /\ IsDone(i, "stop")
        /\ cli[i].running
        /\ Made(i, "SIGTERM", "esrch")
        /\ cli[i].result.message = "ErrorStopping"
        /\ pidFile = NoFile

\* ---------------------------------------------------------------- C10
\* C10 as stated: no start or stop invocation ends with an exception; each
\* ends by returning a ServerResult.
C10_NoExceptionCrossesBoundary ==
    \A i \in Invokers :
        cli[i].op \in Starts \cup {"stop"} => cli[i].pc # "raised"

\* ---------------------------------------------------------------- C11
\* Invocation i made the call c, whatever its outcome.
Did(i, c) == \E k \in 1..Len(cli[i].trace) : cli[i].trace[k].call = c

\* open_process raised in this start.
SpawnFailed(i) == cli[i].op \in Starts /\ Made(i, "open_process", "fail")

\* C11: a start (either mode) whose spawn failed never calls write_pid_file,
\* holds no child, raises nothing and returns a failure result with the PID
\* file absent; the file is absent from the failed spawn on.
C11_FailedSpawnWritesNothing ==
    \A i \in Invokers :
        SpawnFailed(i) =>
            /\ ~Did(i, "write")
            /\ cli[i].process = 0
            /\ pidFile = NoFile
            /\ cli[i].pc # "raised"
            /\ cli[i].pc = "done" =>
                 /\ ~cli[i].result.success
                 /\ cli[i].result.message =
                      (IF cli[i].op = "start_detached"
                       THEN "FailedToStartDetached" ELSE "FailedToStart")

\* Both modes have returned their failure after a spawn that failed: the
\* foreground start in a directory that held a stale PID file.
C11_Witness ==
    \E i \in Invokers :
        /\ SpawnFailed(i)
        /\ cli[i].pc = "done"
        /\ cli[i].op = "start_fg"
        /\ cli[i].file0.exists
        /\ ~cli[i].result.success
        /\ pidFile = NoFile

\* ---------------------------------------------------------------- C12
\* write_pid_file raised in this start, after its child had been spawned.
WriteFailed(i) ==
    /\ cli[i].op \in Starts
    /\ \E k \in 1..Len(cli[i].trace) :
         cli[i].trace[k].call = "write" /\ cli[i].trace[k].out # "ok"

\* Invocation i sent no termination request: no terminate(), no signal.
SentNoSignal(i) ==
    ~Did(i, "terminate") /\ ~Did(i, "SIGTERM") /\ ~Did(i, "SIGKILL")

\* The child of invocation i is as the spawn left it, unless it has exited
\* by itself.
ChildLeftAlone(i) == cli[i].exited \/ procs[cli[i].process] = "run"

\* C12 as stated: a start (either mode) whose child was spawned and whose
\* write_pid_file failed returns a failure result (raises nothing), has sent
\* the child no termination request, leaves the child alive, and no PID file
\* names the child.
C12_FailedWriteOrphansChild ==
    \A i \in Invokers :
        WriteFailed(i) =>
            /\ cli[i].process \in Pids
            /\ SentNoSignal(i)
            /\ ChildLeftAlone(i)
            /\ ~Holds(pidFile, cli[i].process)
            /\ cli[i].pc # "raised"
            /\ cli[i].pc = "done" => ~cli[i].result.success

\* ---------------------------------------------------------------- C13
\* The processes spawned by a start that the operating system still runs (a
\* liveness probe of them succeeds).
LiveServers == {p \in Pids : procs[p] \in ChildStates}

\* C13 as stated: with one command at a time and no failing operation on the
\* PID file, at most one process spawned by start is alive at any time.
C13_AtMostOneLiveServer == Cardinality(LiveServers) <= 1

\* ---------------------------------------------------------------- C14
\* stop() has removed the PID file and returned success, after signalling a
\* server child.
StoppedServer(i) ==
    /\ IsDone(i, "stop")
    /\ cli[i].result.success
    /\ Len(cli[i].trace) >= 2
    /\ cli[i].trace[2].call = "SIGTERM"
    /\ cli[i].trace[2].target \in ChildStates

\* The last call of invocation i found no process under the pid.
LastCallFoundGone(i) ==
    LET last == cli[i].trace[Len(cli[i].trace)] IN
    last.call \in {"kill0", "SIGKILL"} /\ last.out = "esrch"

\* C14 as stated: when stop() returns success with the PID file removed, the
\* last thing it did to the process was an observation that found it gone,
\* made after the last signal it sent, and the server it signalled is not
\* alive.
C14_RecordRemovedOnlyWhenGone ==
    \A i \in Invokers :
        StoppedServer(i) =>
            /\ pidFile = NoFile
            /\ LastCallFoundGone(i)
            /\ cli[i].pid \notin LiveServers

\* ---------------------------------------------------------------- C15
\* The probe of is_server_running() was refused with a permission error.
ProbeDenied(i) ==
    /\ Len(cli[i].trace) >= 1
    /\ IsCall(cli[i].trace[1], "kill0", cli[i].pid, "eperm")

\* is_server_running() has returned to the command that called it.
CheckReturned(i) == cli[i].pc \notin {"idle", "ir_exists", "ir_read", "ir_probe", "ir_unlink"}

\* C15 as stated: an is_running() whose probe was refused with a permission
\* error returns true and keeps the PID file, and a start that made it
\* returns AlreadyRunning.
C15_DeniedProbeMeansAlive ==
    \A i \in Invokers :
        (ProbeDenied(i) /\ CheckReturned(i)) =>
            /\ cli[i].running
            /\ cli[i].op \in {"is_running"} \cup Starts => pidFile = cli[i].file0
            /\ (cli[i].op \in Starts /\ cli[i].pc = "done") =>
                 cli[i].result = ServerResult(FALSE, "AlreadyRunning", <<>>)

\* ---------------------------------------------------------------- C16
\* The PID file f exists and its content is no integer.
InvalidRecord(f) == f.exists /\ ~ParseInt(f.text).ok

\* C16 as stated: a stop() that begins with a PID file whose content is not
\* a pid returns the generic stop failure, not NotRunning, has sent no
\* signal, and the PID file is absent afterwards.
C16_InvalidRecordIsGenericFailure ==
    \A i \in Invokers :
        (IsDone(i, "stop") /\ InvalidRecord(cli[i].file0)) =>
            /\ cli[i].result = ServerResult(FALSE, "ErrorStopping", <<>>)
            /\ SentNoSignal(i)
            /\ pidFile = NoFile

\* ---------------------------------------------------------------- C17
\* is_server_running() could not read a PID file that was there with a pid
\* in it: it went on without a probe of that pid.
ReadFailed(i) ==
    /\ cli[i].pc \notin {"idle", "ir_exists", "ir_read", "ir_probe"}
    /\ ParseInt(cli[i].file0.text).ok
    /\ cli[i].file0.exists
    /\ (cli[i].trace = <<>> \/ cli[i].trace[1].call # "kill0")

\* C17 as stated: when the PID file is there but cannot be read, the file is
\* not deleted, a start spawns nothing, and a start or stop that returns
\* reports a failure that is neither NotRunning nor AlreadyRunning.
C17_UnreadableRecordIsKept ==
    \A i \in Invokers :
        ReadFailed(i) =>
            /\ pidFile = cli[i].file0
            /\ cli[i].clears = 0
            /\ ~Did(i, "open_process")
            /\ (cli[i].pc = "done" /\ cli[i].op # "is_running") =>
                 /\ ~cli[i].result.success
                 /\ cli[i].result.message \notin {"NotRunning", "AlreadyRunning"}

\* ---------------------------------------------------------------- C18
\* C18: with the PID-file functions called directly, a read right after
\* write(p) returns p, for every pid p written and whatever the file held
\* before; a read right after clear() finds no file; clear() raises nothing,
\* also when there is no file, and leaves no file.
C18_StoreRoundTrip ==
    LET t == cli[1].trace IN
    cli[1].op = "store" =>
        /\ \A k \in 1..Len(t) : t[k].call = "clear" => t[k].out = "ok"
        /\ \A k \in 2..Len(t) :
              /\ (t[k].call = "read" /\ t[k - 1].call = "write") =>
                    t[k].out = "ok" /\ t[k].pid = t[k - 1].pid
              /\ (t[k].call = "read" /\ t[k - 1].call = "clear") =>
                    t[k].out = "oserror"
        /\ t[Len(t)].call = "clear" => pidFile = NoFile
        /\ t[Len(t)].call = "write" => pidFile = FileWith(Str(t[Len(t)].pid))

\* write(12345) over a file that held another pid, read back as 12345.
C18_Witness ==
    LET t == cli[1].trace IN
    /\ cli[1].op = "store"
    /\ Len(t) = 3
    /\ IsCall(t[1], "write", FirstPid + 1, "ok")
    /\ IsCall(t[2], "write", TestPid, "ok")
    /\ IsCall(t[3], "read", TestPid, "ok")
    /\ pidFile.text = <<"1", "2", "3", "4", "5">>

\* ---------------------------------------------------------------- C19
\* Invocation i has spawned, signalled or written the PID file.
HasActed(i) ==
    \E c \in {"open_process", "write", "SIGTERM", "SIGKILL", "terminate"} :
        Did(i, c)

\* C19: a start or stop has is_server_running() return to it at most once,
\* and exactly once before it spawns, signals, writes the PID file or
\* returns a result; it begins with nothing remembered; what the check
\* returned comes from its own read of the PID file and its own probe; a
\* start spawns only after False and returns AlreadyRunning exactly after
\* True, a stop signals only after True and returns NotRunning exactly after
\* False.
C19_OneFreshCheckFirst ==
    \A i \in Invokers :
        cli[i].op \in Starts \cup {"stop"} =>
            /\ cli[i].checks <= 1
            /\ (HasActed(i) \/ cli[i].pc = "done") => cli[i].checks = 1
            /\ cli[i].checks = 0 =>
                  /\ ~cli[i].running
                  /\ cli[i].result = NoResult
                  /\ \A k \in 1..Len(cli[i].trace) : cli[i].trace[k].call = "kill0"
            /\ cli[i].running =>
                  /\ cli[i].checks = 1
                  /\ Holds(cli[i].file0, cli[i].pid)
                  /\ IsCall(cli[i].trace[1], "kill0", cli[i].pid, "ok")
            /\ (cli[i].checks = 1 /\ ~cli[i].running) =>
                  (~cli[i].file0.exists \/ cli[i].clears >= 1)
            /\ cli[i].op \in Starts =>
                  /\ Did(i, "open_process") => ~cli[i].running
                  /\ cli[i].pc = "done" =>
                       (cli[i].running <=> cli[i].result.message = "AlreadyRunning")
            /\ cli[i].op = "stop" =>
                  /\ Did(i, "SIGTERM") => cli[i].running
                  /\ cli[i].pc = "done" =>
                       (~cli[i].running <=> cli[i].result.message = "NotRunning")

\* A detached start has succeeded in a directory whose PID file named the
\* pid of an earlier server that is gone: its own check found the record
\* stale, removed it, and the start went on to spawn.
C19_Witness ==
    \E i \in Invokers :
        /\ IsDone(i, "start_detached")
        /\ cli[i].result.success
        /\ cli[i].checks = 1
        /\ cli[i].clears = 1
        /\ Holds(cli[i].file0, cli[i].process)
        /\ Made(i, "kill0", "esrch")

\* ---------------------------------------------------------------- C20
\* The detached start of invocation i has returned success.
DetachedStarted(i) == IsDone(i, "start_detached") /\ cli[i].result.success

\* C20: a detached start that returns success has not waited for its child
\* (the child runs unless it has exited by itself), has called no unlink
\* but the one of the stale-record check before the spawn, has sent no
\* termination request, and the PID file holds the child's pid; the end of
\* the invocation changes neither the PID file nor any process, and between
\* commands the PID file stays as it is.
C20_DetachedStartLeavesChildAndRecord ==
    [][/\ \A i \in Invokers :
            DetachedStarted(i) =>
                /\ cli[i].process \in Pids
                /\ ChildLeftAlone(i)
                /\ SentNoSignal(i)
                /\ cli[i].clears = StaleClears(i)
                /\ pidFile = FileWith(Str(cli[i].process))
                /\ Holds(pidFile, cli[i].process)
                /\ cli'[i].pc = "idle" => UNCHANGED <<pidFile, procs>>
       /\ AllIdle => pidFile' = pidFile]_vars

\* A later stop() has found, through the PID file, the running child of a
\* detached start that had returned, and has terminated it.
C20_Witness ==
    \E i \in Invokers :
        /\ StoppedServer(i)
        /\ cli[i].process = 0
        /\ Holds(cli[i].file0, cli[i].pid)
        /\ cli[i].trace[2].target = "run"
        /\ cli[i].pid \in Pids
        /\ procs[cli[i].pid] = "free"
        /\ pidFile = NoFile

\* ---------------------------------------------------------------- C21
\* The foreground start of invocation i has called terminate() after an
\* interrupt and waits for its child.
WaitsAfterTerminate(i) == cli[i].op = "start_fg" /\ cli[i].pc = "fg_wait2"

\* The command of invocation i has ended, with a result or an exception.
Ended(i) == cli[i].pc \in {"done", "raised"}

\* C21 as stated: a foreground start that waits for its child after
\* terminate() eventually ends, whether or not the child ever exits.
C21_WaitAfterTerminateIsBounded ==
    \A i \in Invokers : WaitsAfterTerminate(i) ~> Ended(i)

\* ---------------------------------------------------------------- C22
\* C22 as stated: when a start or stop command whose supervisor call returned
\* a result ends, its exit code is 0 if the result has success = true and 1
\* if it has success = false.
C22_ExitCodeFollowsSuccess ==
    [][\A i \in Invokers :
         (cli[i].pc = "done" /\ cli[i].op \in Starts \cup {"stop"}
          /\ cli'[i].pc = "idle") =>
             cli'[i].exit = (IF cli[i].result.success THEN 0 ELSE 1)]_vars

\* ---------------------------------------------------------------- C23
\* The PID file f holds an integer that is zero or negative.
NonPositiveRecord(f) ==
    f.exists /\ ParseInt(f.text).ok /\ ParseInt(f.text).val <= 0

\* C23 as stated: for a PID file that holds zero or a negative integer,
\* is_running() does not return true, no command sends a signal to that
\* identifier, and the file is removed as a stale one.
C23_NonPositivePidIsNotRunning ==
    \A i \in Invokers :
        NonPositiveRecord(cli[i].file0) =>
            /\ ~cli[i].running
            /\ SentNoSignal(i)
            /\ cli[i].pc = "done" => pidFile = NoFile

\* ---------------------------------------------------------------- C24
\* stop() of invocation i has had True from is_server_running().
StopSawRunning(i) == cli[i].op = "stop" /\ cli[i].running

\* The pid that is_server_running() probed for invocation i.
Validated(i) == cli[i].trace[1].pid

\* C24 as stated: once is_running() has returned true to a stop(), its own
\* read finds the PID file and yields the validated pid, and the graceful
\* signal goes to that pid, whatever another invocation does in between.
C24_StopReadsValidatedPid ==
    \A i \in Invokers :
        (StopSawRunning(i) /\ cli[i].pc \notin {"stop_chk", "st_read"}) =>
            /\ cli[i].pid = Validated(i)
            /\ cli[i].pc = "st_term" \/ Len(cli[i].trace) >= 2
            /\ Len(cli[i].trace) >= 2 =>
                 /\ cli[i].trace[2].call = "SIGTERM"
                 /\ cli[i].trace[2].pid = Validated(i)

\* Invocation i takes the step of stop_server that is at position pc.
StopStepAt(i, pc) ==
    cli[i].op = "stop" /\ cli[i].pc = pc /\ cli'[i].pc # pc

\* C24 (amended): the read of stop() yields what the PID file holds at that
\* moment.  If it holds the validated pid, as it does whenever no other
\* invocation has begun, stop() goes on with that pid; if the file is gone,
\* stop() sends no signal and returns the generic failure; if it holds
\* another pid, stop() goes on with that one.  The graceful signal goes to
\* the pid that was read.
C24_StopReadsCurrentRecord ==
    [][\A i \in Invokers :
         /\ (StopStepAt(i, "st_read") /\ Holds(pidFile, Validated(i))) =>
               cli'[i].pc = "st_term" /\ cli'[i].pid = Validated(i)
         /\ (StopStepAt(i, "st_read") /\ ~pidFile.exists) =>
               cli'[i].pc = "st_errclear" /\ cli'[i].trace = cli[i].trace
         /\ (cli[i].op = "stop" /\ cli[i].pc = "st_read"
              /\ \A j \in Invokers \ {i} : cli[j].pc = "idle") =>
               Holds(pidFile, Validated(i))
         /\ \A q \in Pids :
               (StopStepAt(i, "st_read") /\ Holds(pidFile, q)) =>
                  cli'[i].pc = "st_term" /\ cli'[i].pid = q
         /\ (StopStepAt(i, "st_errclear") /\ Len(cli[i].trace) = 1) =>
               /\ cli'[i].result = ServerResult(FALSE, "ErrorStopping", <<>>)
               /\ cli'[i].trace = cli[i].trace
         /\ StopStepAt(i, "st_term") =>
               /\ Len(cli'[i].trace) = 2
               /\ cli'[i].trace[2].call = "SIGTERM"
               /\ cli'[i].trace[2].pid = cli[i].pid]_vars

\* A foreground session ended between the check and the read of a stop():
\* the stop found no PID file, signalled nothing and returned the generic
\* failure.
C24_Witness ==
    \E i, j \in Invokers :
        /\ IsDone(i, "stop")
        /\ cli[i].running
        /\ Len(cli[i].trace) = 1
        /\ cli[i].result.message = "ErrorStopping"
        /\ IsDone(j, "start_fg")
        /\ cli[j].process = Validated(i)
        /\ cli[j].result.message = "StoppedWithExitCode"

\* ---------------------------------------------------------------- C25
\* The start of invocation i has had False from is_server_running() and has
\* gone past the guard.
StartPassedCheck(i) ==
    /\ cli[i].op \in Starts
    /\ cli[i].checks = 1
    /\ ~cli[i].running
    /\ cli[i].pc # "start_chk"

\* Invocation i takes the step of a start that is at position pc.
StartStepAt(i, pc) ==
    cli[i].op \in Starts /\ cli[i].pc = pc /\ cli'[i].pc # pc

\* The start of invocation i has spawned a child that runs and has written
\* its pid, and has returned success (detached) or waits for the child
\* (foreground).
StartedLiveChild(i) ==
    /\ StartPassedCheck(i)
    /\ cli[i].process \in Pids
    /\ procs[cli[i].process] = "run"
    /\ Made(i, "write", "ok")
    /\ \/ DetachedStarted(i)
       \/ cli[i].op = "start_fg" /\ cli[i].pc = "fg_wait"

\* C25: nothing between the guard and the write of a start looks at the PID
\* file or at the servers of other invocations: a start that has passed the
\* guard checks no more, its spawn starts a new child whatever the PID file
\* holds and whatever servers run, and its write replaces whatever the PID
\* file holds by its own child's pid.  (So two starts that both pass the
\* guard leave two live children and the pid written last: C25_Witness.)
C25_RacingStartsBothSpawn ==
    [][\A i \in Invokers :
         /\ StartPassedCheck(i) => cli'[i].checks = cli[i].checks
         /\ (StartStepAt(i, "dt_spawn") \/ StartStepAt(i, "fg_spawn")) =>
               /\ FreePids # {} => ENABLED (/\ Uninterrupted(i)
                                            /\ cli'[i].process \in Pids)
               /\ pidFile' = pidFile
               /\ \A q \in Pids : procs[q] # "free" => procs'[q] = procs[q]
               /\ cli'[i].process \in Pids => procs'[cli'[i].process] = "run"
         /\ (StartStepAt(i, "dt_write") \/ StartStepAt(i, "fg_write")) =>
               /\ pidFile' = FileWith(Str(cli[i].process))
               /\ Holds(pidFile', cli[i].process)
               /\ \A q \in Pids \ {cli[i].process} : ~Holds(pidFile', q)]_vars

\* Two starts in a directory without a PID file both found no file before
\* either wrote one; both spawned, both wrote; one has returned success and
\* the other waits in the foreground (or both have returned success); two
\* children run and the PID file names only the one written last.
C25_Witness ==
    \E i, j \in Invokers :
        /\ i # j
        /\ cli[i].file0 = NoFile /\ cli[j].file0 = NoFile
        /\ cli[i].clears = 0 /\ cli[j].clears = 0
        /\ StartedLiveChild(i) /\ StartedLiveChild(j)
        /\ cli[i].process # cli[j].process
        /\ LiveServers = {cli[i].process, cli[j].process}
        /\ cli[i].op = "start_detached"
        /\ cli[j].op = "start_fg"
        /\ pidFile = FileWith(Str(cli[j].process))
        /\ ~Holds(pidFile, cli[i].process)

\* ---------------------------------------------------------------- C26
\* Invocation i takes the step that concludes its operation with
\* remove_pid_file(): the final clear of stop_server or the finally block of
\* run_server_foreground.
FinalClear(i) ==
    \/ StopStepAt(i, "st_clear")
    \/ StartStepAt(i, "fg_finally")

\* The pid the operation of invocation i is about: the one stop_server
\* signalled, the child of a start.
OwnPid(i) == IF cli[i].op = "stop" THEN cli[i].pid ELSE cli[i].process

\* The PID file holds the pid of a server other than p.
HoldsAnother(f, p) == \E q \in Pids \ {p} : Holds(f, q)

\* C26 as stated: the concluding clear of stop_server leaves a PID file that
\* holds another pid than the one it signalled, and the cleanup of a
\* foreground start leaves a PID file that holds the pid of another child
\* that is still alive.
C26_ClearRemovesOnlyOwnRecord ==
    [][\A i \in Invokers :
         /\ (StopStepAt(i, "st_clear") /\ HoldsAnother(pidFile, cli[i].pid)) =>
               pidFile' = pidFile
         /\ (StartStepAt(i, "fg_finally")
               /\ \E q \in LiveServers \ {cli[i].process} : Holds(pidFile, q)) =>
               pidFile' = pidFile]_vars

\* C26 (amended): the concluding clear removes the PID file whatever it
\* holds.  While no other invocation has begun, the file it removes is
\* absent or holds the operation's own pid; a record that another invocation
\* wrote in the meantime is removed as well, and the processes are left as
\* they are (a live server then runs without a record).
C26_ClearRemovesWhateverIsThere ==
    [][\A i \in Invokers :
         FinalClear(i) =>
            /\ pidFile' = NoFile
            /\ procs' = procs
            /\ cli'[i].clears = cli[i].clears + 1
            /\ (\A j \in Invokers \ {i} : cli[j].pc = "idle") =>
                  (~pidFile.exists \/ Holds(pidFile, OwnPid(i)))]_vars

\* A detached start ran during the grace interval of a stop whose server had
\* exited: it found the record stale, spawned a new server and wrote its
\* pid; the stop then removed that record.  The new server runs, the
\* directory has no PID file.
C26_Witness ==
    \E i, j \in Invokers :
        /\ StoppedServer(i)
        /\ ~cli[i].forced_termination
        /\ DetachedStarted(j)
        /\ cli[j].clears = 1
        /\ cli[j].process # cli[i].pid
        /\ LiveServers = {cli[j].process}
        /\ pidFile = NoFile

\* ---------------------------------------------------------------- C27
\* The termination signals that os.kill delivered for invocation i.
DeliveredSignals(i) ==
    {k \in 1..Len(cli[i].trace) :
        cli[i].trace[k].call \in {"SIGTERM", "SIGKILL"} /\ cli[i].trace[k].out = "ok"}

\* C27 as stated: every termination signal that stop_server sent went to a
\* server child, whatever has happened to the recorded pid.
C27_StopSignalsOnlyServers ==
    \A i \in Invokers :
        cli[i].op = "stop" =>
            \A k \in DeliveredSignals(i) : cli[i].trace[k].target \in ChildStates

\* C27 (amended): every termination signal of stop_server goes to the pid it
\* read from the PID file, whatever runs under that pid when the signal is
\* sent; no process that this pid does not address is touched.  An unrelated
\* process of the same user that has the pid receives the signals, the
\* forced one included.
C27_StopSignalsRecordedPid ==
    [][\A i \in Invokers :
         /\ cli[i].op = "stop" =>
               \A k \in 1..Len(cli[i].trace) :
                  cli[i].trace[k].call \in {"SIGTERM", "SIGKILL"} =>
                     /\ cli[i].trace[k].pid = cli[i].pid
                     /\ Holds(cli[i].file0, cli[i].pid)
         /\ StopStepAt(i, "st_term") =>
               /\ cli'[i].trace =
                     Append(cli[i].trace,
                            Call("SIGTERM", cli[i].pid, KillOutcome(cli[i].pid)))
               /\ \A q \in Pids \ Reached(cli[i].pid) : procs'[q] = procs[q]
         /\ StopStepAt(i, "st_kill") =>
               /\ cli'[i].trace =
                     Append(cli[i].trace,
                            Call("SIGKILL", cli[i].pid, KillOutcome(cli[i].pid)))
               /\ \A q \in Pids \ Reached(cli[i].pid) : procs'[q] = procs[q]
               /\ (cli[i].pid \in Pids /\ procs[cli[i].pid] = "alien") =>
                     procs'[cli[i].pid] = "free"]_vars

\* The recorded server exited within the grace interval of a stop and its
\* pid went to an unrelated process: the re-probe found that process and
\* SIGKILL ended it.
C27_Witness ==
    \E i \in Invokers :
        /\ IsDone(i, "stop")
        /\ cli[i].result.success
        /\ cli[i].forced_termination
        /\ Len(cli[i].trace) = 5
        /\ IsCall(cli[i].trace[2], "SIGTERM", cli[i].pid, "ok")
        /\ cli[i].trace[2].target = "run"
        /\ IsCall(cli[i].trace[5], "SIGKILL", cli[i].pid, "ok")
        /\ cli[i].trace[5].target = "alien"

\* ---------------------------------------------------------------- C28
\* Invocation i begins a stop while the foreground start of invocation j
\* waits for its child.
StopMeetsForeground(i, j) ==
    /\ cli[i].op = "stop" /\ cli[i].pc = "ir_exists"
    /\ cli[j].op = "start_fg" /\ cli[j].pc = "fg_wait"

\* Both have returned a result, the child of j is gone and there is no PID
\* file.
BothConcluded(i, j) ==
    /\ cli[i].pc = "done" /\ cli[i].result # NoResult
    /\ cli[j].pc = "done" /\ cli[j].result # NoResult
    /\ cli[j].process \in Pids /\ procs[cli[j].process] = "free"
    /\ pidFile = NoFile

\* C28: a stop that begins while a foreground start waits for its child
\* leads to the child being gone, both invocations having returned a result
\* and the PID file being absent, in whatever order the two remove it.
C28_StopEndsForegroundSession ==
    \A i, j \in Invokers : StopMeetsForeground(i, j) ~> BothConcluded(i, j)

\* The child ignored SIGTERM: the stop escalated, the foreground start saw
\* its child exit and returned; the stop removed the PID file after the
\* foreground start had removed it.
C28_Witness ==
    \E i, j \in Invokers :
        /\ BothConcluded(i, j)
        /\ StoppedServer(i)
        /\ cli[i].forced_termination
        /\ cli[i].pid = cli[j].process
        /\ cli[i].file0 = FileWith(Str(cli[j].process))
        /\ IsDone(j, "start_fg")
        /\ cli[j].result.message = "StoppedWithExitCode"
        /\ cli[i].clears = 1 /\ cli[j].clears = 1

\* ---------------------------------------------------------------- C29
\* The check of invocation i found, in the PID file, the pid of a process
\* that does not exist.
StaleAtCheck(i) ==
    \E p \in Pids :
        /\ Holds(cli[i].file0, p)
        /\ Len(cli[i].trace) >= 1
        /\ IsCall(cli[i].trace[1], "kill0", p, "esrch")

\* C29: a start that finds a stale PID file is not rejected: the check
\* removes the file and returns False, the start goes on to open_process
\* (unless Ctrl+C comes first), which gives it a new child unless it raises;
\* a detached start writes into a directory without a PID file, and when it
\* has returned success the PID file is the one it wrote, holding the pid of
\* its own child.
C29_StaleRecordDoesNotBlockStart ==
    [][\A i \in Invokers :
         (cli[i].op \in Starts /\ StaleAtCheck(i)) =>
            /\ ~cli[i].running
            /\ cli[i].result.message # "AlreadyRunning"
            /\ cli[i].checks = 1 => cli[i].clears >= 1
            /\ StartStepAt(i, "start_chk") =>
                  /\ pidFile = NoFile
                  /\ cli'[i].pc \in {"dt_spawn", "fg_spawn"}
            /\ (cli[i].pc = "done" /\ cli[i].intr = 0) => Did(i, "open_process")
            /\ Made(i, "open_process", "ok") =>
                  /\ cli[i].process \in Pids
                  /\ cli[i].trace[2].target = "free"
            /\ StartStepAt(i, "dt_write") =>
                  /\ pidFile = NoFile
                  /\ pidFile' = FileWith(Str(cli[i].process))
            /\ DetachedStarted(i) =>
                  /\ pidFile = FileWith(Str(cli[i].process))
                  /\ IsCall(cli[i].trace[3], "write", cli[i].process, "ok")
                  /\ ChildLeftAlone(i)]_vars

\* A detached start in a directory whose PID file named a server that is
\* gone has returned success: its child runs under another pid and the PID
\* file holds that pid.
C29_Witness ==
    \E i \in Invokers :
        /\ DetachedStarted(i)
        /\ StaleAtCheck(i)
        /\ cli[i].file0 = FileWith(Str(FirstPid))
        /\ cli[i].process = FirstPid + 1
        /\ procs[FirstPid + 1] = "run"
        /\ procs[FirstPid] = "free"
        /\ pidFile = FileWith(Str(FirstPid + 1))

\* ---------------------------------------------------------------- C30
\* run_server_foreground of invocation i has returned a result and no
\* Ctrl+C came.
ForegroundReturned(i) ==
    /\ cli[i].op = "start_fg"
    /\ StartPassedCheck(i)
    /\ cli[i].pc = "done"
    /\ cli[i].intr = 0

\* C30: what run_server_foreground returns when no Ctrl+C came: with the
\* spawn and the write of the PID file done, it returns only after the child
\* has exited, and then success with two details, the child's pid and the
\* address, whatever the exit code; a failure is returned only after
\* open_process or write_pid_file raised, and then with no child awaited.
C30_ForegroundResultIgnoresExitCode ==
    \A i \in Invokers :
        ForegroundReturned(i) =>
            /\ (Made(i, "open_process", "ok") /\ Made(i, "write", "ok")) =>
                  /\ cli[i].exited
                  /\ cli[i].result.success
                  /\ cli[i].result.message = "StoppedWithExitCode"
                  /\ cli[i].result.details =
                        <<Detail("pid", cli[i].process), Detail("url", 0)>>
                  /\ Len(SplitOnPID(cli[i].result.details[1])) = 2
            /\ ~cli[i].result.success =>
                  /\ \/ Made(i, "open_process", "fail")
                     \/ Made(i, "write", "eacces")
                     \/ Made(i, "write", "enospc")
                  /\ cli[i].result = ServerResult(FALSE, "FailedToStart", <<>>)
            /\ cli[i].result.success <=>
                  (Made(i, "open_process", "ok") /\ Made(i, "write", "ok"))

\* A foreground start has returned success although its child ended with a
\* non-zero exit code.
C30_Witness ==
    \E i \in Invokers :
        /\ ForegroundReturned(i)
        /\ cli[i].returncode = 1
        /\ cli[i].result.success
        /\ Len(cli[i].result.details) = 2
        /\ cli[i].result.details[1] = Detail("pid", cli[i].process)

====
